---- MODULE Spec2Model ----
(***************************************************************************)
(* Model of semdedup.py: semantic deduplication of a text corpus.          *)
(*                                                                         *)
(* Two specifications share this module:                                   *)
(*   SpecEmbed  lines 38-59: dataset.map(embed_text), the length assert    *)
(*              and the collection of the embeddings array;                *)
(*   Spec       lines 61-120: k-means training, nearest-centroid search,   *)
(*              the per-cluster pruning loop and the final filter,         *)
(*              started from an N x D array of unit-norm rows (what        *)
(*              line 59 is meant to deliver).                              *)
(*   SpecAnyOrder is Spec with the loop body of lines 89-111 applied to    *)
(*              the clusters in an arbitrary order.                        *)
(*                                                                         *)
(* Numbers.  An embedding row is a pair of integers <<x, y>> of Euclidean  *)
(* norm Norm(v); the float the program holds is v[c] / Norm(v).  Cosine    *)
(* similarities and epsilon are kept in hundredths (0.09 is 9).  cdist's   *)
(* Euclidean distance is kept squared, which orders rows the same way.     *)
(***************************************************************************)
EXTENDS Integers, Sequences, FiniteSets

\* ---------------------------------------------------------------- bounds
MaxN == 3
MaxK == 2
MaxDocs == 18
MaxGpus == 2

\* rows the embedding model may produce after normalize(): all of norm 5
UnitVectors == { <<3, 4>>, <<4, 3>>, <<5, 0>> }
\* unit centroids the k-means of lines 69-70 may return
CentroidValues == { <<3, 4>>, <<5, 0>> }
\* values tried for line 64 (the program's own 0.09 is 9)
EpsilonValues == { 9, 50, 150 }

\* ------------------------------------------------------- program constants
batch_size == 16
niter == 20
\* len(examples) of a batch of openwebtext: its single column "text"
num_columns == 1

VARIABLES
    \* lines 23-59
    original_length, num_gpus, epc, batch_lo, batch_len, batch_embeddings,
    dataset_len, collected_len, collected_ndim,
    \* lines 61-120
    embeddings, num_clusters, epsilon, cluster_centers, cluster_labels,
    processed, cluster_in, sorted_indices, cluster_i_embeddings, M,
    points_to_keep_from_cluster_i, points_to_keep, filtered_dataset, pc

embedVars == << original_length, num_gpus, epc, batch_lo, batch_len,
                batch_embeddings, dataset_len, collected_len, collected_ndim >>
coreVars == << embeddings, num_clusters, epsilon, cluster_centers,
               cluster_labels, processed, cluster_in, sorted_indices,
               cluster_i_embeddings, M, points_to_keep_from_cluster_i,
               points_to_keep, filtered_dataset, pc >>
vars == << embedVars, coreVars >>

\* ---------------------------------------------------------------- helpers
Range(s) == { s[k] : k \in DOMAIN s }

Dot(x, y) == x[1] * y[1] + x[2] * y[2]

Norm(v) == CHOOSE s \in 0..Dot(v, v) : s * s = Dot(v, v)

SetMax(S) == CHOOSE m \in S : \A x \in S : x <= m

\* number of rows of the embeddings array
N == Cardinality(DOMAIN embeddings)

\* ================================================================ lines 23-59
\* d = embeddings.shape[1]: the length of one embedding
EmbeddingDim == Cardinality(DOMAIN (CHOOSE v \in UnitVectors : TRUE))

Min2(a, b) == IF a <= b THEN a ELSE b

\* line 40: torch.tensor(range(len(examples))).fmod_(num_gpus); examples is the
\* batch, a mapping from column name to list, so len(examples) counts columns
GpuIds == [ k \in 1..num_columns |-> (k - 1) % num_gpus ]

\* lines 42-47: zip(examples["text"], gpu_id) stops at the shorter of the two;
\* one embedding is appended per pair (recorded here by the GPU that made it)
EmbedTextResult(blen) == [ k \in 1..Min2(blen, Len(GpuIds)) |-> GpuIds[k] ]

InitEmbed ==
    /\ original_length \in 1..MaxDocs
    /\ num_gpus \in 0..MaxGpus
    /\ epc = "map"
    /\ batch_lo = 0
    /\ batch_len = 0
    /\ batch_embeddings = << >>
    /\ dataset_len = 0
    /\ collected_len = 0
    /\ collected_ndim = 0
    /\ embeddings = << >>
    /\ num_clusters = 0
    /\ epsilon = 0
    /\ cluster_centers = << >>
    /\ cluster_labels = << >>
    /\ processed = << >>
    /\ cluster_in = << >>
    /\ sorted_indices = << >>
    /\ cluster_i_embeddings = << >>
    /\ M = 0
    /\ points_to_keep_from_cluster_i = << >>
    /\ points_to_keep = << >>
    /\ filtered_dataset = {}
    /\ pc = "idle"

\* line 49, one batch: dataset.map hands embed_text the next batch_size rows.
\* With no GPU, fmod_ by zero raises inside embed_text.
EmbedText ==
    /\ epc = "map"
    /\ batch_lo < original_length
    /\ batch_len' = Min2(batch_size, original_length - batch_lo)
    /\ IF num_gpus = 0
       THEN /\ epc' = "error_embed"
            /\ UNCHANGED batch_embeddings
       ELSE /\ batch_embeddings' = EmbedTextResult(batch_len')
            /\ epc' = "write"
    /\ UNCHANGED << original_length, num_gpus, batch_lo, dataset_len,
                    collected_len, collected_ndim, coreVars >>

\* line 49, one batch: map writes the returned column next to the batch's own
\* columns; columns of different lengths are refused by the table writer
MapWrite ==
    /\ epc = "write"
    /\ IF Len(batch_embeddings) # batch_len
       THEN /\ epc' = "error_map"
            /\ UNCHANGED << batch_lo, dataset_len >>
       ELSE /\ dataset_len' = dataset_len + batch_len
            /\ batch_lo' = batch_lo + batch_len
            /\ epc' = IF batch_lo' < original_length THEN "map" ELSE "assert"
    /\ UNCHANGED << original_length, num_gpus, batch_len, batch_embeddings,
                    collected_len, collected_ndim, coreVars >>

\* line 52
AssertLength ==
    /\ epc = "assert"
    /\ epc' = IF original_length = dataset_len THEN "collect" ELSE "error_assert"
    /\ UNCHANGED << original_length, num_gpus, batch_lo, batch_len,
                    batch_embeddings, dataset_len, collected_len,
                    collected_ndim, coreVars >>

\* lines 55-56: the inner loop runs over example["embeddings"], the floats of
\* one row, so the list holds dataset_len * d floats and the array is 1-D
CollectEmbeddings ==
    /\ epc = "collect"
    /\ collected_len' = dataset_len * EmbeddingDim
    /\ collected_ndim' = 1
    /\ epc' = "normalize"
    /\ UNCHANGED << original_length, num_gpus, batch_lo, batch_len,
                    batch_embeddings, dataset_len, coreVars >>

\* line 59: normalize() accepts 2-D arrays only
Normalize ==
    /\ epc = "normalize"
    /\ epc' = IF collected_ndim = 2 THEN "clustering" ELSE "error_normalize"
    /\ UNCHANGED << original_length, num_gpus, batch_lo, batch_len,
                    batch_embeddings, dataset_len, collected_len,
                    collected_ndim, coreVars >>

NextEmbed ==
    \/ EmbedText
    \/ MapWrite
    \/ AssertLength
    \/ CollectEmbeddings
    \/ Normalize

SpecEmbed == InitEmbed /\ [][NextEmbed]_vars

\* =============================================================== lines 14-19
\* cdist(embeddings, centroid.reshape(1, -1), "euclidean"), squared
cdist(rows, centroid) ==
    [ k \in DOMAIN rows |->
        (rows[k][1] - centroid[1]) * (rows[k][1] - centroid[1])
      + (rows[k][2] - centroid[2]) * (rows[k][2] - centroid[2]) ]

\* np.argsort(distances, axis=0): the orders of S by ascending distance; rows
\* at equal distance may come out in either order (the sort is not stable)
RECURSIVE AscendingOrders(_, _)
AscendingOrders(distances, S) ==
    IF S = {} THEN { << >> }
    ELSE LET least == CHOOSE m \in { distances[k] : k \in S } :
                          \A k \in S : m <= distances[k]
         IN UNION { { << k >> \o rest :
                        rest \in AscendingOrders(distances, S \ {k}) } :
                    k \in { j \in S : distances[j] = least } }

argsort(distances) == AscendingOrders(distances, DOMAIN distances)

\* the reversal of line 18 left out
NotReversed(s) == s

\* sorted_indices[::-1]
Reversed(s) == [ k \in DOMAIN s |-> s[Len(s) + 1 - k] ]

\* lines 15-18: the index orders sort_by_centroid_distance may compute
SortedIndices(rows, centroid, descending) ==
    { IF descending THEN Reversed(p) ELSE p :
        p \in argsort(cdist(rows, centroid)) }

\* line 19: embeddings[sorted_indices.flatten()], a new array
TakeRows(rows, indices) == [ k \in DOMAIN indices |-> rows[indices[k]] ]

\* =============================================================== lines 83-111
\* line 83: the centroids nearest to a row (largest inner product; the index
\* of a spherical k-means is an inner-product index)
NearestCentroids(v) ==
    { c \in DOMAIN cluster_centers :
        \A c2 \in DOMAIN cluster_centers :
            Dot(v, cluster_centers[c2]) <= Dot(v, cluster_centers[c]) }

\* the mask written cluster_labels <= i
MembersUpTo(i) == { n \in DOMAIN embeddings : cluster_labels[n] <= i }

\* line 91: the mask cluster_labels == i
ClusterMembers(i) == { n \in DOMAIN embeddings : cluster_labels[n] = i }

\* line 91: embeddings[mask], the rows of the mask in index order
SelectRows(S) ==
    [ k \in 1..Cardinality(S) |->
        embeddings[CHOOSE n \in S : Cardinality({ m \in S : m < n }) = k - 1] ]

\* line 99: cosine_similarity(X), in hundredths
cosine_similarity(rows) ==
    [ a \in DOMAIN rows |-> [ b \in DOMAIN rows |->
        (100 * Dot(rows[a], rows[b])) \div (Norm(rows[a]) * Norm(rows[b])) ] ]

\* np.triu(m, k): entries on and above the k-th diagonal, zero elsewhere
triu(m, k) ==
    [ a \in DOMAIN m |-> [ b \in DOMAIN m |->
        IF b - a >= k THEN m[a][b] ELSE 0 ] ]

\* np.triu with k = 0, which keeps the diagonal
TriuWithDiagonal(rows) == triu(cosine_similarity(rows), 0)

\* lines 99-102
TriuSimMatrix(rows) == triu(cosine_similarity(rows), 1)

\* np.max(m, axis=0): the maximum of every column
ColumnMax(m) == [ b \in DOMAIN m |-> SetMax({ m[a][b] : a \in DOMAIN m }) ]

\* line 105: np.max(triu_sim_matrix, axis=0)[0], the maximum of column 0 only
MaxSimilarity(rows) == ColumnMax(TriuSimMatrix(rows))[1]

\* the comparison of line 108 turned round
KeepMaskInverted(m, eps) == m >= 100 - eps

\* line 108: M <= 1 - epsilon, one boolean for the whole cluster
KeepMask(m, eps) == m <= 100 - eps

\* line 108: indexing an (n, d) array with one boolean gives shape (1, n, d)
\* when it is True and (0, n, d) when it is False
BoolIndex(rows, mask) == IF mask THEN << rows >> ELSE << >>

\* lines 99-108 for one ranked cluster
PointsToKeepFromCluster(rows, eps) ==
    BoolIndex(rows, KeepMask(MaxSimilarity(rows), eps))

\* the accumulator assigned instead of extended
Overwrite(list, items) == items

\* line 111: list.extend adds the items along the first axis
Extend(list, items) == list \o items

\* line 119: idx in points_to_keep, i.e. (points_to_keep == idx).any() over
\* the floats of the array
IndexInArray(idx, arrays) ==
    \E a \in DOMAIN arrays : \E r \in DOMAIN arrays[a] : \E c \in 1..EmbeddingDim :
        arrays[a][r][c] = idx * Norm(arrays[a][r])

Init ==
    /\ embeddings \in UNION { [ 0..(n - 1) -> UnitVectors ] : n \in 1..MaxN }
    /\ num_clusters \in 1..MaxK
    /\ epsilon \in EpsilonValues
    /\ cluster_centers = << >>
    /\ cluster_labels = << >>
    /\ processed = << >>
    /\ cluster_in = << >>
    /\ sorted_indices = << >>
    /\ cluster_i_embeddings = << >>
    /\ M = 0
    /\ points_to_keep_from_cluster_i = << >>
    /\ points_to_keep = << >>
    /\ filtered_dataset = {}
    /\ pc = "train"
    /\ original_length = N
    /\ num_gpus = 1
    /\ epc = "clustering"
    /\ batch_lo = N
    /\ batch_len = 0
    /\ batch_embeddings = << >>
    /\ dataset_len = N
    /\ collected_len = N
    /\ collected_ndim = 2

\* lines 69-70: k-means of niter iterations; the library refuses fewer points
\* than clusters, and otherwise returns num_clusters unit centroids
Train ==
    /\ pc = "train"
    /\ IF N < num_clusters
       THEN /\ pc' = "error_train"
            /\ UNCHANGED cluster_centers
       ELSE /\ cluster_centers' \in [ 0..(num_clusters - 1) -> CentroidValues ]
            /\ pc' = "search"
    /\ UNCHANGED << embeddings, num_clusters, epsilon, cluster_labels,
                    processed, cluster_in, sorted_indices,
                    cluster_i_embeddings, M, points_to_keep_from_cluster_i,
                    points_to_keep, filtered_dataset, embedVars >>

\* lines 83-87
Search ==
    /\ pc = "search"
    /\ cluster_labels' \in
         { f \in [ DOMAIN embeddings -> DOMAIN cluster_centers ] :
             \A n \in DOMAIN embeddings : f[n] \in NearestCentroids(embeddings[n]) }
    /\ points_to_keep' = << >>
    /\ pc' = "loop"
    /\ UNCHANGED << embeddings, num_clusters, epsilon, cluster_centers,
                    processed, cluster_in, sorted_indices,
                    cluster_i_embeddings, M, points_to_keep_from_cluster_i,
                    filtered_dataset, embedVars >>

\* lines 90-111, the loop body for cluster i.  With no row in the cluster,
\* cosine_similarity and the [0] of line 105 have nothing to work on: raise.
PruneCluster(i) ==
    LET rows == SelectRows(ClusterMembers(i)) IN
    /\ processed' = Append(processed, i)
    /\ cluster_in' = rows
    /\ IF rows = << >>
       THEN /\ pc' = "error_prune"
            /\ sorted_indices' = << >>
            /\ cluster_i_embeddings' = << >>
            /\ UNCHANGED << M, points_to_keep_from_cluster_i, points_to_keep >>
       ELSE /\ sorted_indices' \in SortedIndices(rows, cluster_centers[i], TRUE)
            /\ cluster_i_embeddings' = TakeRows(rows, sorted_indices')
            /\ M' = MaxSimilarity(cluster_i_embeddings')
            /\ points_to_keep_from_cluster_i' =
                   PointsToKeepFromCluster(cluster_i_embeddings', epsilon)
            /\ points_to_keep' =
                   Extend(points_to_keep, points_to_keep_from_cluster_i')
            /\ pc' = "loop"
    /\ UNCHANGED << embeddings, num_clusters, epsilon, cluster_centers,
                    cluster_labels, filtered_dataset, embedVars >>

\* line 89: for i in range(num_clusters)
Prune ==
    /\ pc = "loop"
    /\ Len(processed) < num_clusters
    /\ PruneCluster(Len(processed))

\* line 115: np.array of a list of (n_i, d) arrays; arrays of different n_i
\* do not stack
Collect ==
    /\ pc = "loop"
    /\ Len(processed) = num_clusters
    /\ pc' = IF \A a, b \in DOMAIN points_to_keep :
                    Len(points_to_keep[a]) = Len(points_to_keep[b])
             THEN "filter" ELSE "error_collect"
    /\ UNCHANGED << embeddings, num_clusters, epsilon, cluster_centers,
                    cluster_labels, processed, cluster_in, sorted_indices,
                    cluster_i_embeddings, M, points_to_keep_from_cluster_i,
                    points_to_keep, filtered_dataset, embedVars >>

\* lines 118-120
Filter ==
    /\ pc = "filter"
    /\ filtered_dataset' =
         { idx \in DOMAIN embeddings : IndexInArray(idx, points_to_keep) }
    /\ pc' = "done"
    /\ UNCHANGED << embeddings, num_clusters, epsilon, cluster_centers,
                    cluster_labels, processed, cluster_in, sorted_indices,
                    cluster_i_embeddings, M, points_to_keep_from_cluster_i,
                    points_to_keep, embedVars >>

Next ==
    \/ Train
    \/ Search
    \/ Prune
    \/ Collect
    \/ Filter

Spec == Init /\ [][Next]_vars

\* the loop of line 89 with its iterations taken in any order
PruneAnyOrder ==
    /\ pc = "loop"
    /\ \E i \in (0..(num_clusters - 1)) \ Range(processed) : PruneCluster(i)

NextAnyOrder ==
    \/ Train
    \/ Search
    \/ PruneAnyOrder
    \/ Collect
    \/ Filter

SpecAnyOrder == Init /\ [][NextAnyOrder]_vars

\* ==================================================================== claims
\* the cluster of the last loop iteration, when it had rows and was pruned
LastCluster == processed[Len(processed)]
Pruned == processed # << >> /\ cluster_in # << >>
LoopStarted == pc \in { "loop", "error_prune", "error_collect", "filter", "done" }
LoopFinished == pc \in { "error_collect", "filter", "done" }
EpsilonValid(eps) == 0 < eps /\ eps < 100

\* ranks (1 = farthest from the centroid) of the rows held by a per-cluster result
RanksIn(result) == UNION { DOMAIN result[a] : a \in DOMAIN result }
KeptRanks == RanksIn(points_to_keep_from_cluster_i)

\* the embedding rows held by a list of kept arrays
RowsIn(arrays) == UNION { Range(arrays[a]) : a \in DOMAIN arrays }

\* similarity, in hundredths, of the rows ranked a and b in the last cluster
Sim(a, b) == cosine_similarity(cluster_i_embeddings)[a][b]

\* C1: in every pruned cluster a ranked member j is kept if and only if its
\* similarity to every member ranked strictly before it is at most
\* 1 - epsilon (M(j) computed per member j, not once per cluster).
C1_PerMemberDecision ==
    (Pruned /\ EpsilonValid(epsilon)) =>
        \A j \in DOMAIN cluster_i_embeddings :
            (j \in KeptRanks) <=>
                (\A i \in 1..(j - 1) : Sim(i, j) <= 100 - epsilon)

\* C2: at the end of the run the filtered dataset holds exactly the document
\* indices whose embedding row was kept by the pruning loop.
C2_FilterMatchesKeepSet ==
    (pc = "done") =>
        filtered_dataset =
            { idx \in DOMAIN embeddings : embeddings[idx] \in RowsIn(points_to_keep) }

\* how many loop iterations had row n in their cluster
Visits(n) ==
    Cardinality({ k \in DOMAIN processed : n \in ClusterMembers(processed[k]) })

C4_FirstRankedKept ==
    (Pruned /\ EpsilonValid(epsilon)) =>
        /\ 1 \in KeptRanks
        /\ Len(cluster_i_embeddings) = 1 => KeptRanks = {1}

C4_Witness ==
    /\ Pruned /\ EpsilonValid(epsilon)
    /\ Len(cluster_i_embeddings) >= 2
    /\ Sim(1, 2) > 100 - epsilon
    /\ 1 \in KeptRanks

\* C5: for the ranked cluster of any loop iteration and any two thresholds
\* epsilon1 < epsilon2, the members kept at epsilon2 are among those kept at
\* epsilon1 (the larger epsilon discards at least as many).
C5_MonotoneInEpsilon ==
    Pruned =>
        \A e1, e2 \in EpsilonValues :
            e1 < e2 =>
                RanksIn(PointsToKeepFromCluster(cluster_i_embeddings, e2))
                    \subseteq RanksIn(PointsToKeepFromCluster(cluster_i_embeddings, e1))

C5_Witness ==
    /\ Pruned
    /\ Len(cluster_i_embeddings) >= 2
    /\ \E e1, e2 \in EpsilonValues :
          /\ e1 < e2 /\ EpsilonValid(e1) /\ EpsilonValid(e2)
          /\ Sim(1, 2) > 100 - e2
          /\ RanksIn(PointsToKeepFromCluster(cluster_i_embeddings, e1)) # {}

\* C6: with epsilon outside (0, 1), num_clusters <= 0 or niter <= 0 nothing is
\* computed: k-means training never completes, and no labels, loop iteration
\* or keep-set follow.
ConfigInvalid == ~EpsilonValid(epsilon) \/ num_clusters <= 0 \/ niter <= 0
C6_InvalidConfigRejected ==
    ConfigInvalid =>
        /\ pc \in { "train", "error_train" }
        /\ cluster_centers = << >> /\ cluster_labels = << >>
        /\ processed = << >> /\ points_to_keep = << >>

\* C7: embed_text returns one embedding per document of its batch, and a run
\* that reaches clustering has a 2-D array of one row per document.
C7_OneEmbeddingPerDocument ==
    /\ epc = "write" => Len(batch_embeddings) = batch_len
    /\ epc = "clustering" =>
           collected_ndim = 2 /\ collected_len = original_length

\* what pruning cluster i on its own can return, as sets of rows: one set for
\* every order the sort may give the cluster's rows
IsolatedKeepSets(i) ==
    LET rows == SelectRows(ClusterMembers(i)) IN
    { RowsIn(PointsToKeepFromCluster(TakeRows(rows, idx), epsilon)) :
        idx \in SortedIndices(rows, cluster_centers[i], TRUE) }

\* C8: in whatever order the clusters are pruned, the result for a cluster is
\* one set fixed by its rows, centroid and epsilon, and after every iteration
\* of the loop (the last one included, whose accumulator is the final one)
\* the accumulator holds the union of the results of the clusters pruned so
\* far, one array for each cluster that kept something.
C8_OrderIndependent ==
    (pc = "loop") =>
        LET isolated == [ k \in DOMAIN processed |->
                            IsolatedKeepSets(processed[k]) ]
        IN /\ \A k \in DOMAIN processed : Cardinality(isolated[k]) = 1
           /\ RowsIn(points_to_keep) =
                  UNION { UNION isolated[k] : k \in DOMAIN processed }
           /\ Len(points_to_keep) =
                  Cardinality({ k \in DOMAIN processed : UNION isolated[k] # {} })

C8_Witness ==
    /\ pc = "loop"
    /\ processed = << 1, 0 >>
    /\ EpsilonValid(epsilon)
    /\ RowsIn(points_to_keep_from_cluster_i) # RowsIn(points_to_keep)

\* occurrences of row v in an array
Count(v, rows) == Cardinality({ k \in DOMAIN rows : rows[k] = v })

\* C9: the sorted cluster is a permutation of the rows selected for it
\* (each row once), ordered by non-increasing distance to the centroid, and
\* the embeddings array still gives the same selection.
C9_SortedDescendingPermutation ==
    Pruned =>
        LET n == Len(cluster_in)
            dist == cdist(cluster_i_embeddings, cluster_centers[LastCluster])
        IN /\ Len(sorted_indices) = n
           /\ Range(sorted_indices) = 1..n
           /\ Len(cluster_i_embeddings) = n
           /\ \A v \in UnitVectors :
                  Count(v, cluster_i_embeddings) = Count(v, cluster_in)
           /\ \A p, q \in 1..n : p < q => dist[p] >= dist[q]
           /\ cluster_in = SelectRows(ClusterMembers(LastCluster))

C9_Witness ==
    /\ Pruned
    /\ Len(cluster_in) >= 3
    /\ cluster_i_embeddings # cluster_in
    /\ \E p, q \in DOMAIN cluster_in :
          cdist(cluster_in, cluster_centers[LastCluster])[p]
              < cdist(cluster_in, cluster_centers[LastCluster])[q]

\* C10: the loop iteration of a cluster without rows ends without an error
\* (so that the loop can go on to the remaining clusters).
C10_EmptyClusterSkipped ==
    (processed # << >> /\ ClusterMembers(LastCluster) = {}) =>
        pc # "error_prune"

====
